---- MODULE Spec2Model ----
(***************************************************************************)
(* NightDriver-Pi, matrixdraw.h: the draw loop MatrixDraw::RunDrawLoop,    *)
(* the renderer MatrixDraw::DrawFrame and the FPS() accessor, together     *)
(* with the collaborators they use (the LEDBufferManager queue, the clock, *)
(* the RGBMatrix surface and the interrupt flag).                          *)
(*                                                                         *)
(* Time is counted in ticks; one microsecond is TicksPerMicro ticks, so an *)
(* age may be a fraction of a microsecond, as the double age of the source *)
(* may be.                                                                 *)
(***************************************************************************)
EXTENDS Integers, Sequences, FiniteSets

\* ---------------------------------------------------------------- bounds
MatrixWidth == 3
MatrixHeight == 2
MaxFrames == 2
TicksPerMicro == 2
MaxSleeps == 1

\* ------------------------------------------------------ program constants
\* constexpr auto kMaximumWait = 10000.0 (microseconds)
kMaximumWait == 10000

\* The clock horizon of the model, in ticks.
MaxTime == MaxSleeps * kMaximumWait * TicksPerMicro + 2 * TicksPerMicro

VARIABLES
    pc,                  \* position of the thread running RunDrawLoop
    interrupt_received,  \* extern volatile bool interrupt_received
    burnExtraFrames,     \* constexpr auto burnExtraFrames
    queue,               \* the buffers held by the LEDBufferManager, oldest first
    now,                 \* CAppTime::CurrentTime(), in ticks
    age,                 \* the value of the last AgeOfOldestBuffer() read, in ticks
    buffer,              \* std::optional<std::unique_ptr<LEDBuffer>> buffer
    delay,               \* int64_t delay, in microseconds
    lastTime,            \* static double lastTime of DrawFrame, in ticks
    _FPS,                \* static double _FPS
    matrix,              \* the pixels of the RGBMatrix
    nextId,              \* the number of the next frame the producer inserts
    popped,              \* the frames PopOldestBuffer has returned, in order
    drawn,               \* the frames DrawFrame has been called with, in order
    writes,              \* SetPixel calls per pixel within the current DrawFrame
    emptyPops,           \* the number of PopOldestBuffer calls that returned no value
    backlogAtPop,        \* the buffer, if any, that was queued behind the last popped
                         \* one and already due when it was popped (its id, or 0)
    sleepsSincePoll,     \* the sleeps since interrupt_received was last polled
    sinceStop,           \* what the loop has done since interrupt_received was set
    pass,                \* the current run of the inner loop: the frames popped and
                         \* the DrawFrame calls in it, and whether RunDrawLoop was the
                         \* only one to take buffers during it
    dueAtWait            \* the due time of the buffer that was the oldest when delay
                         \* was computed, while the loop is about to sleep

vars == <<pc, interrupt_received, burnExtraFrames, queue, now, age, buffer, delay,
          lastTime, _FPS, matrix, nextId, popped, drawn, writes,
          emptyPops, backlogAtPop, sleepsSincePoll, sinceStop, dueAtWait, pass>>

\* ---------------------------------------------------------------- values
None == [id |-> 0, due |-> 0, size |-> 0]

Pixels == (0 .. MatrixWidth - 1) \X (0 .. MatrixHeight - 1)

Black == <<0, 0, 0>>

\* The sizes of the frames the producer sends: the matrix size, one less, one more.
FrameSizes == {MatrixWidth * MatrixHeight, MatrixWidth * MatrixHeight - 1,
               MatrixWidth * MatrixHeight + 1}

\* The due times the producer gives a frame, relative to now: due at once, due in a
\* little more than a microsecond, due later than kMaximumWait.
DueOffsets == {0, TicksPerMicro + 1, kMaximumWait * TicksPerMicro + TicksPerMicro + 1}

\* buffer->ColorData(): pixel i of frame f encodes its source column, row and frame.
ColorData(f) == [i \in 0 .. f.size - 1 |-> <<i % MatrixWidth, i \div MatrixWidth, f.id>>]

\* AgeOfOldestBuffer() of an empty manager: no buffer is due.
EmptyAge == 1000000000

\* LEDBufferManager::AgeOfOldestBuffer(): time until the oldest buffer is due.
AgeOfOldestBuffer == IF queue = <<>> THEN EmptyAge ELSE Head(queue).due - now

\* Conversion of a double, given in ticks, to int64_t microseconds: truncation
\* toward zero.
\* A conversion that rounds to the next whole microsecond instead.
RoundUpToMicros(t) == (t + TicksPerMicro - 1) \div TicksPerMicro

TruncToMicros(t) == IF t >= 0 THEN t \div TicksPerMicro ELSE -((-t) \div TicksPerMicro)

MinOf(a, b) == IF b < a THEN b ELSE a

\* DelayFor without the cap: the age alone decides the delay.
DelayForUncapped(a) == TruncToMicros(a)

\* int64_t delay = std::min(kMaximumWait, AgeOfOldestBuffer() * 1000000L)
DelayFor(a) == TruncToMicros(MinOf(kMaximumWait * TicksPerMicro, a))

\* Delta without the epsilon.
DeltaNoEpsilon(currentTime, last) == [ticks |-> currentTime - last, eps |-> 0]

\* double delta = currentTime - lastTime + DBL_EPSILON, as ticks plus epsilons.
Delta(currentTime, last) == [ticks |-> currentTime - last, eps |-> 1]

\* _FPS = 1.0 / delta
Reciprocal(d) == [num |-> 1, ticks |-> d.ticks, eps |-> d.eps]

\* DestX without the mirroring.
DestXUnmirrored(sx) == sx

\* matrix.width() - 1 - x
DestX(sx) == MatrixWidth - 1 - sx

\* y * matrix.width() + x
SourceIndex(sx, sy) == sy * MatrixWidth + sx

\* SizeMismatch that rejects only the frames that are too short.
SizeMismatchShort(f) == f.size < MatrixWidth * MatrixHeight

\* buffer->ColorData().size() != (size_t) matrix.width() * matrix.height()
SizeMismatch(f) == f.size # MatrixWidth * MatrixHeight

\* The age a manager holding q reports at time t.
AgeAt(q, t) == IF q = <<>> THEN EmptyAge ELSE Head(q).due - t

\* No AgeOfOldestBuffer() read is being acted on.
NoAge == EmptyAge + 1

\* The positions of RunDrawLoop at which it holds no popped buffer and acts on no
\* age read that was <= 0.
IdlePcs == {"while", "inner", "wait", "sleep"}

\* The value of dueAtWait when the loop is not about to sleep, or the manager held no
\* buffer when delay was computed.
NoDue == 0 - 1

\* The inner loop is not running, or has popped nothing yet.
NoPass == [pops |-> 0, draws |-> 0, sole |-> TRUE]

\* Another consumer has taken a buffer while the inner loop was running.
NotSole == [pops |-> 0, draws |-> 0, sole |-> FALSE]

\* The positions of RunDrawLoop inside the inner loop.
InnerPcs == {"inner", "pop", "burn", "draw", "pixels"}

NoStop == [set |-> FALSE, quiet |-> FALSE, idle |-> FALSE, sleeps |-> 0,
           acted |-> FALSE]

\* The bookkeeping once a buffer has been due after interrupt_received was set.
NotQuiet == [set |-> TRUE, quiet |-> FALSE, idle |-> FALSE, sleeps |-> 0,
             acted |-> FALSE]

\* The history h with one more frame id; a history keeps the first MaxFrames entries
\* (the numbered frames the producer sends are no more than that).
Record(h, id) == IF Len(h) < MaxFrames THEN Append(h, id) ELSE h

\* A counter of the bookkeeping, one up, kept at most cap.
CountUp(n, cap) == IF n < cap THEN n + 1 ELSE n

\* Bookkeeping after interrupt_received was set, for as long as no buffer has been
\* due since: the sleeps the loop has begun since (sl more), and whether it has
\* popped a buffer or run a step of DrawFrame since (act).
SinceStop(sl, act) ==
    sinceStop' = IF sinceStop.set /\ sinceStop.quiet
                 THEN IF AgeAt(queue', now') > 0
                      THEN [sinceStop EXCEPT !.sleeps = IF sl = 0 THEN @ ELSE CountUp(@, 2),
                                             !.acted = @ \/ act]
                      ELSE NotQuiet
                 ELSE sinceStop

\* ------------------------------------------------------------------ Init
InitCommon ==
    /\ pc = "while"
    /\ interrupt_received = FALSE
    /\ queue = <<>>
    /\ now = 0
    /\ age = NoAge
    /\ buffer = None
    /\ delay = 0
    /\ lastTime = 0
    /\ _FPS = [num |-> 0, ticks |-> 0, eps |-> 1]
    /\ matrix = [p \in Pixels |-> Black]
    /\ nextId = 1
    /\ popped = <<>>
    /\ drawn = <<>>
    /\ writes = [p \in Pixels |-> 0]
    /\ emptyPops = 0
    /\ backlogAtPop = 0
    /\ sleepsSincePoll = 0
    /\ sinceStop = NoStop
    /\ dueAtWait = NoDue
    /\ pass = NoPass

Init == InitCommon /\ burnExtraFrames = FALSE

InitBurn == InitCommon /\ burnExtraFrames = TRUE

\* ------------------------------------------------- RunDrawLoop, step by step
\* KeepRunning that ignores the flag.
KeepRunningAlways == TRUE

\* The condition of the outer loop: !interrupt_received
KeepRunning == ~interrupt_received

\* IsDue with the comparison turned round.
IsDueFlipped(a) == a >= 0

\* The condition of the inner loop on the age it has read: age <= 0
IsDue(a) == a <= 0

\* while (!interrupt_received) ... return true;
PollInterrupt ==
    /\ pc = "while"
    /\ pc' = IF KeepRunning THEN "inner" ELSE "return"
    /\ sleepsSincePoll' = 0
    /\ UNCHANGED <<pass, dueAtWait, interrupt_received, burnExtraFrames, queue, now, age, buffer, delay,
                   lastTime, _FPS, matrix, nextId, popped, drawn, writes,
                   emptyPops, backlogAtPop>>
    /\ SinceStop(0, FALSE)

\* while (bufferManager.AgeOfOldestBuffer() <= 0)
CheckAge ==
    /\ pc = "inner"
    /\ age' = AgeOfOldestBuffer
    /\ pc' = IF IsDue(AgeOfOldestBuffer) THEN "pop" ELSE "wait"
    /\ pass' = IF IsDue(AgeOfOldestBuffer) THEN pass ELSE NoPass
    /\ UNCHANGED <<dueAtWait, interrupt_received, burnExtraFrames, queue, now, buffer, delay,
                   lastTime, _FPS, matrix, nextId, popped, drawn, writes,
                   backlogAtPop,
                   emptyPops, sleepsSincePoll>>
    /\ SinceStop(0, FALSE)

\* AfterPop that drops every popped buffer.
AfterPopSkip == "inner"

\* AfterPop that ignores the discard policy.
AfterPopNoBurn == "draw"

\* Where a successful pop continues: the age check of the discard policy, or the render.
\* A loop that gave up the popped buffer and went back to the flag once it is set.
AfterPopPolling ==
    IF interrupt_received THEN "while" ELSE IF burnExtraFrames THEN "burn" ELSE "draw"

AfterPop == IF burnExtraFrames THEN "burn" ELSE "draw"

\* AfterEmptyPop without the has_value() test.
AfterEmptyPopDraw == "draw"

\* if (!buffer.has_value()) continue;
AfterEmptyPop == "inner"

\* The buffer queued behind the oldest one, if it is already due: its id, else 0.
DueBehind == IF Len(queue) >= 2 /\ queue[2].due <= now THEN queue[2].id ELSE 0

\* buffer = bufferManager.PopOldestBuffer(); if (!buffer.has_value()) continue;
PopOldestBuffer ==
    /\ pc = "pop"
    /\ IF queue = <<>>
       THEN /\ buffer' = None
            /\ pc' = AfterEmptyPop
            /\ age' = NoAge
            /\ emptyPops' = CountUp(emptyPops, MaxFrames)
            /\ pass' = NotSole
            /\ UNCHANGED <<queue, popped, backlogAtPop, sleepsSincePoll>>
            /\ UNCHANGED <<dueAtWait, interrupt_received, burnExtraFrames, now, delay,
                           lastTime, _FPS, matrix, nextId, drawn, writes>>
            /\ SinceStop(0, FALSE)
       ELSE /\ buffer' = Head(queue)
            /\ queue' = Tail(queue)
            /\ popped' = Record(popped, Head(queue).id)
            /\ pass' = IF pass.sole THEN [pass EXCEPT !.pops = CountUp(@, MaxFrames)]
                       ELSE pass
            /\ backlogAtPop' = IF Head(queue).due <= now THEN DueBehind ELSE 0
            /\ pc' = AfterPop
            /\ UNCHANGED <<emptyPops, sleepsSincePoll>>
            /\ UNCHANGED <<dueAtWait, interrupt_received, burnExtraFrames, now, age, delay,
                           lastTime, _FPS, matrix, nextId, drawn, writes>>
            /\ SinceStop(0, TRUE)

\* if (burnExtraFrames && bufferManager.AgeOfOldestBuffer() <= 0) continue;
BurnCheck ==
    /\ pc = "burn"
    /\ IF IsDue(AgeOfOldestBuffer)
       THEN pc' = "inner" /\ buffer' = None /\ age' = NoAge
       ELSE pc' = "draw" /\ buffer' = buffer /\ age' = AgeOfOldestBuffer
    /\ UNCHANGED <<pass, dueAtWait, interrupt_received, burnExtraFrames, queue, now, delay,
                   lastTime, _FPS, matrix, nextId, popped, drawn, writes,
                   backlogAtPop,
                   emptyPops, sleepsSincePoll>>
    /\ SinceStop(0, FALSE)

\* DrawFrame, from its entry to the size check: the timing state is updated, then a
\* frame of the wrong size throws, which leaves RunDrawLoop.
DrawFrame ==
    /\ pc = "draw"
    /\ drawn' = Record(drawn, buffer.id)
    /\ pass' = IF pass.sole THEN [pass EXCEPT !.draws = CountUp(@, MaxFrames)] ELSE pass
    /\ lastTime' = now
    /\ _FPS' = Reciprocal(Delta(now, lastTime))
    /\ writes' = [p \in Pixels |-> 0]
    /\ IF SizeMismatch(buffer)
       THEN pc' = "throw" /\ buffer' = None
       ELSE pc' = "pixels" /\ buffer' = buffer
    /\ age' = NoAge
    /\ UNCHANGED <<dueAtWait, interrupt_received, burnExtraFrames, queue, now, delay,
                   matrix, nextId, popped, backlogAtPop,
                   emptyPops, sleepsSincePoll>>
    /\ SinceStop(0, TRUE)

\* The nested for loops of DrawFrame, from pass k on (pass k has x = k \div height and
\* y = k % height): each pass is one SetPixel call. m is the surface and w the number
\* of SetPixel calls each pixel has had.
RECURSIVE PixelLoop(_, _, _, _)
PixelLoop(k, m, w, f) ==
    IF k >= MatrixWidth * MatrixHeight
    THEN [matrix |-> m, writes |-> w]
    ELSE LET sx == k \div MatrixHeight
             sy == k % MatrixHeight
             dest == <<DestX(sx), sy>>
         IN  PixelLoop(k + 1,
                       [m EXCEPT ![dest] = ColorData(f)[SourceIndex(sx, sy)]],
                       [w EXCEPT ![dest] = @ + 1],
                       f)

\* DrawFrame, from the for loops to its return; the inner while loop of RunDrawLoop
\* then goes on, and the popped buffer is released.
SetPixels ==
    /\ pc = "pixels"
    /\ matrix' = PixelLoop(0, matrix, writes, buffer).matrix
    /\ writes' = PixelLoop(0, matrix, writes, buffer).writes
    /\ pc' = "inner"
    /\ buffer' = None
    /\ UNCHANGED <<pass, dueAtWait, interrupt_received, burnExtraFrames, queue, now, age, delay,
                   lastTime, _FPS, nextId, popped, drawn, backlogAtPop,
                   emptyPops, sleepsSincePoll>>
    /\ SinceStop(0, TRUE)

\* int64_t delay = std::min(kMaximumWait, AgeOfOldestBuffer() * 1000000L);
\* if (delay > 0) ...
ComputeDelay ==
    /\ pc = "wait"
    /\ IF DelayFor(AgeOfOldestBuffer) > 0
       THEN /\ pc' = "sleep"
            /\ age' = AgeOfOldestBuffer
            /\ delay' = DelayFor(AgeOfOldestBuffer)
            /\ dueAtWait' = IF queue = <<>> THEN NoDue ELSE Head(queue).due
       ELSE /\ pc' = "while"
            /\ age' = NoAge
            /\ delay' = 0
            /\ dueAtWait' = NoDue
    /\ UNCHANGED <<pass, interrupt_received, burnExtraFrames, queue, now, buffer,
                   lastTime, _FPS, matrix, nextId, popped, drawn, writes,
                   backlogAtPop,
                   emptyPops, sleepsSincePoll>>
    /\ SinceStop(0, FALSE)

\* std::this_thread::sleep_for(std::chrono::microseconds(delay));
Sleep ==
    /\ pc = "sleep"
    /\ now + delay * TicksPerMicro <= MaxTime
    /\ now' = now + delay * TicksPerMicro
    /\ pc' = "while"
    /\ age' = NoAge
    /\ delay' = 0
    /\ dueAtWait' = NoDue
    /\ sleepsSincePoll' = CountUp(sleepsSincePoll, 2)
    /\ UNCHANGED <<pass, interrupt_received, burnExtraFrames, queue, buffer,
                   lastTime, _FPS, matrix, nextId, popped, drawn, writes,
                   emptyPops, backlogAtPop>>
    /\ SinceStop(1, FALSE)

\* static double FPS() { return _FPS; }
FPS == _FPS

\* ------------------------------------------------------------ environment
\* RunDrawLoop has neither returned nor thrown: the process is still running.
Running == pc \notin {"return", "throw"}

\* The socket thread hands the manager a frame with its presentation time.
Produce ==
    /\ Running
    /\ nextId <= MaxFrames
    /\ \E off \in DueOffsets, sz \in FrameSizes :
          /\ now + off <= MaxTime
          /\ queue' = Append(queue, [id |-> nextId, due |-> now + off, size |-> sz])
    /\ nextId' = nextId + 1
    /\ UNCHANGED <<pass, dueAtWait, pc, interrupt_received, burnExtraFrames, now, age, buffer, delay,
                   lastTime, _FPS, matrix, popped, drawn, writes, backlogAtPop,
                   emptyPops, sleepsSincePoll>>
    /\ SinceStop(0, FALSE)

\* Another party takes the oldest buffer out of the manager (the race RunDrawLoop's
\* comment describes).
Drain ==
    /\ Running
    /\ queue # <<>>
    /\ queue' = Tail(queue)
    /\ pass' = IF pc \in InnerPcs THEN NotSole ELSE pass
    /\ UNCHANGED <<dueAtWait, pc, interrupt_received, burnExtraFrames, now, age, buffer, delay,
                   lastTime, _FPS, matrix, nextId, popped, drawn, writes,
                   backlogAtPop,
                   emptyPops, sleepsSincePoll>>
    /\ SinceStop(0, FALSE)

\* Time passes: up to the moment a queued buffer falls due, or to one tick before.
Tick ==
    /\ Running
    /\ \E i \in 1 .. Len(queue), early \in {0, 1} :
          /\ queue[i].due - early > now
          /\ now' = queue[i].due - early
    /\ UNCHANGED <<pass, dueAtWait, pc, interrupt_received, burnExtraFrames, queue, age, buffer, delay,
                   lastTime, _FPS, matrix, nextId, popped, drawn, writes,
                   backlogAtPop,
                   emptyPops, sleepsSincePoll>>
    /\ SinceStop(0, FALSE)

\* The signal handler sets the flag.
SetInterrupt ==
    /\ Running
    /\ ~interrupt_received
    /\ interrupt_received' = TRUE
    /\ sinceStop' = IF AgeOfOldestBuffer > 0
                    THEN [set |-> TRUE, quiet |-> TRUE, idle |-> pc \in IdlePcs,
                          sleeps |-> 0, acted |-> FALSE]
                    ELSE NotQuiet
    /\ UNCHANGED <<pass, dueAtWait, pc, burnExtraFrames, queue, now, age, buffer, delay,
                   lastTime, _FPS, matrix, nextId, popped, drawn, writes,
                   backlogAtPop,
                   emptyPops, sleepsSincePoll>>

\* ----------------------------------------------------------- specifications
LoopStep ==
    \/ PollInterrupt
    \/ CheckAge
    \/ PopOldestBuffer
    \/ DrawFrame
    \/ SetPixels
    \/ ComputeDelay
    \/ Sleep

Environment ==
    \/ Produce
    \/ Drain
    \/ Tick
    \/ SetInterrupt

Next == LoopStep \/ Environment

\* The program as built: burnExtraFrames = false.
Spec == Init /\ [][Next]_vars

NextBurn == Next \/ BurnCheck

\* The program with the discard policy enabled: burnExtraFrames = true.
SpecBurn == InitBurn /\ [][NextBurn]_vars

\* The program built with either value of burnExtraFrames.
InitEither == InitCommon /\ burnExtraFrames \in BOOLEAN

SpecEither == InitEither /\ [][NextBurn]_vars

\* The producer goes on after its numbered frames: whenever the manager is empty it may
\* hand it one more frame, of the right size and already due.
ProduceMore ==
    /\ Running
    /\ nextId > MaxFrames
    /\ queue = <<>>
    /\ queue' = <<[id |-> MaxFrames + 1, due |-> now, size |-> MatrixWidth * MatrixHeight]>>
    /\ UNCHANGED <<pass, dueAtWait, pc, interrupt_received, burnExtraFrames, now, age, buffer, delay,
                   lastTime, _FPS, matrix, nextId, popped, drawn, writes, backlogAtPop,
                   emptyPops, sleepsSincePoll>>
    /\ SinceStop(0, FALSE)

\* sleep_for at the clock horizon of the model: the sleep ends, the clock stays at the
\* horizon.
SleepAtHorizon ==
    /\ pc = "sleep"
    /\ now + delay * TicksPerMicro > MaxTime
    /\ now' = MaxTime
    /\ pc' = "while"
    /\ age' = NoAge
    /\ delay' = 0
    /\ dueAtWait' = NoDue
    /\ sleepsSincePoll' = CountUp(sleepsSincePoll, 2)
    /\ UNCHANGED <<pass, interrupt_received, burnExtraFrames, queue, buffer,
                   lastTime, _FPS, matrix, nextId, popped, drawn, writes,
                   emptyPops, backlogAtPop>>
    /\ SinceStop(1, FALSE)

\* The steps of the thread that runs RunDrawLoop, none of which waits for anything but
\* the end of a sleep.
LoopThread == LoopStep \/ SleepAtHorizon

NextFair == LoopThread \/ Environment \/ ProduceMore

\* The program as built, with a producer that need not stop, and the loop thread
\* scheduled fairly: it takes a step whenever it can.
SpecFair == Init /\ [][NextFair]_vars /\ WF_vars(LoopThread)

\* ------------------------------------------------------------------ claims
Last(q) == q[Len(q)]

Range(q) == {q[i] : i \in 1 .. Len(q)}

MatrixSize == MatrixWidth * MatrixHeight

\* C1: readiness gating. PopOldestBuffer, and with the discard policy off DrawFrame, is
\* reached only on an age read <= 0; an age read > 0 leads to the wait with no pop and
\* no render; an age read <= 0 leads to the pop, which takes the oldest buffer present,
\* and that buffer is handed to DrawFrame.
C1_ReadinessGating ==
    [][/\ (pc' = "pop" => age' <= 0)
       /\ (popped' # popped => pc = "pop" /\ age <= 0)
       /\ (drawn' # drawn => pc = "draw" /\ age <= 0 /\ buffer.id = Last(popped))
       /\ (pc = "inner" /\ pc' # pc /\ AgeOfOldestBuffer > 0
              => pc' = "wait" /\ age' > 0 /\ popped' = popped /\ drawn' = drawn)
       /\ (pc = "inner" /\ pc' # pc /\ AgeOfOldestBuffer <= 0 => pc' = "pop")
       /\ (pc = "pop" /\ pc' # pc /\ queue # <<>>
              => buffer' = Head(queue) /\ pc' = "draw" /\ queue' = Tail(queue))
       /\ (pc = "draw" /\ pc' # pc => drawn' = Append(drawn, buffer.id))
      ]_vars

\* A buffer that was not yet due when it was queued has been popped once due, and its
\* render has begun.
C1_Witness == pc = "pixels" /\ buffer.due > 0 /\ buffer.due <= now

\* C2: empty-pop race tolerance. A PopOldestBuffer that returns no value neither throws
\* nor returns from RunDrawLoop, calls no DrawFrame, leaves the surface, the FPS metric
\* and the last-render time alone, and goes back to the age read.
C2_EmptyPopTolerated ==
    [][pc = "pop" /\ pc' # pc /\ queue = <<>>
         => /\ pc' = "inner"
            /\ buffer' = None
            /\ UNCHANGED <<matrix, _FPS, lastTime, drawn, popped, writes>>
      ]_vars

\* An empty pop has happened and the loop is back at the age read.
C2_Witness == emptyPops > 0 /\ pc = "inner" /\ drawn = <<>>

\* C3: wait bound. Every sleep lasts more than 0 and at most kMaximumWait microseconds,
\* and the loop sleeps at most once between two polls of interrupt_received.
C3_WaitBound ==
    /\ (pc = "sleep" => delay > 0 /\ delay <= kMaximumWait)
    /\ sleepsSincePoll <= 1

\* The loop is about to sleep the full ceiling although a buffer is queued: that
\* buffer is due later than the ceiling.
C3_Witness ==
    /\ pc = "sleep"
    /\ delay = kMaximumWait
    /\ queue # <<>>
    /\ age > kMaximumWait * TicksPerMicro

\* C4 as stated: a buffer popped while the buffer behind it was already due is never
\* handed to DrawFrame.
C4_Original == backlogAtPop # 0 => pc \notin {"draw", "pixels", "throw"}

\* C4, amended: with the discard policy on, a buffer popped while the buffer behind it
\* was already due reaches DrawFrame only if that second buffer was taken out of the
\* manager before the age read that follows the pop; while the second buffer is still
\* the oldest one the first is dropped, and the surface never shows a frame that
\* DrawFrame was not called with.
C4_BacklogDiscard ==
    /\ (pc \in {"draw", "pixels"} /\ backlogAtPop # 0
          => queue = <<>> \/ Head(queue).id # backlogAtPop)
    /\ (pc \in {"draw", "pixels"} => buffer.id = Last(popped))
    /\ \A p \in Pixels : matrix[p] = Black \/ matrix[p][3] \in Range(drawn)

\* The first of two due buffers has been dropped: it was popped, DrawFrame was never
\* called, and the second is still queued.
C4_Witness ==
    /\ pc = "inner"
    /\ backlogAtPop # 0
    /\ Len(popped) = 1
    /\ drawn = <<>>
    /\ buffer = None
    /\ queue # <<>>
    /\ Head(queue).id = backlogAtPop

\* C5: with the discard policy off, the frames DrawFrame has been called with are the
\* frames PopOldestBuffer has returned, in order, each once; only a frame just popped
\* is still to be passed on.
C5_EveryPopRendered ==
    /\ Len(drawn) + (IF pc = "draw" THEN 1 ELSE 0) = Len(popped)
    /\ \A i \in 1 .. Len(drawn) : drawn[i] = popped[i]
    /\ \A i, j \in 1 .. Len(popped) : i # j => popped[i] # popped[j]
    /\ (pc \in {"draw", "pixels"} => buffer.id = Last(popped))

\* A buffer popped with a second due buffer behind it is being rendered all the same.
C5_Witness == pc = "pixels" /\ backlogAtPop # 0 /\ drawn = popped

\* C6: size-mismatch fatality. DrawFrame on a frame whose size is not width * height
\* throws and makes no SetPixel call; the surface changes only in the for loops of a
\* DrawFrame whose frame has the size of the surface.
C6_SizeMismatchFatal ==
    [][/\ (pc = "draw" /\ pc' # pc /\ buffer.size # MatrixSize
              => pc' = "throw" /\ matrix' = matrix /\ writes' = [p \in Pixels |-> 0])
       /\ (pc = "draw" /\ pc' # pc /\ buffer.size = MatrixSize => pc' = "pixels")
       /\ (matrix' # matrix => pc = "pixels" /\ buffer.size = MatrixSize)
       /\ (pc = "throw" => pc' = "throw" /\ matrix' = matrix)
      ]_vars

\* DrawFrame has thrown on its second frame; the surface still shows the first.
C6_Witness ==
    /\ pc = "throw"
    /\ Len(drawn) = 2
    /\ \A p \in Pixels : matrix[p][3] = drawn[1]

\* C7: no partial-frame rendering. A DrawFrame call either writes every pixel and
\* updates the FPS metric and the last-render time, or leaves all three as they were;
\* a call that throws on a size mismatch changes none of them.
C7_NoPartialFrame ==
    [][/\ (pc = "draw" /\ pc' = "throw" => UNCHANGED <<matrix, _FPS, lastTime>>)
       /\ (pc = "pixels" /\ pc' # pc => \A p \in Pixels : writes'[p] = 1)
      ]_vars

\* C8: mirroring. Once a DrawFrame has run its loops, every pixel has been written
\* exactly once in that call, and the pixel (W-1-x, y) of the surface holds the pixel of
\* linear index y*W + x of the frame, which is the one that encodes (x, y).
C8_Mirroring ==
    (\E p \in Pixels : writes[p] # 0)
      => /\ \A p \in Pixels : writes[p] = 1
         /\ drawn # <<>>
         /\ \A sx \in 0 .. MatrixWidth - 1, sy \in 0 .. MatrixHeight - 1 :
               matrix[<<MatrixWidth - 1 - sx, sy>>] = <<sx, sy, Last(drawn)>>

\* A render has completed: the top left pixel of the surface holds the top right pixel
\* of frame 1.
C8_Witness ==
    /\ writes[<<0, 0>>] = 1
    /\ matrix[<<0, 0>>] = <<MatrixWidth - 1, 0, 1>>
    /\ matrix[<<MatrixWidth - 1, MatrixHeight - 1>>] = <<0, MatrixHeight - 1, 1>>

\* What C9 promises once the flag is set: no pop and no render, at most one sleep, of
\* at most the ceiling, and straight after it the poll and the return.
StopsPromptly ==
    /\ ~sinceStop.acted
    /\ sinceStop.sleeps <= 1
    /\ (sinceStop.sleeps = 1 => pc \in {"while", "return"})
    /\ (pc = "sleep" => delay <= kMaximumWait)

\* C9 as stated: whenever the flag has been set and no buffer has been due since, the
\* loop stops promptly.
C9_Original == sinceStop.set /\ sinceStop.quiet => StopsPromptly

\* C9, amended: when the flag is set while the loop holds no popped buffer and acts on
\* no age read <= 0 (it is at the poll, the age read of the inner loop, the delay
\* computation or the sleep), and no buffer has been due since, the loop stops promptly.
C9_BoundedStop == sinceStop.set /\ sinceStop.quiet /\ sinceStop.idle => StopsPromptly

\* The flag was set while the loop idled, the loop slept once and has returned.
C9_Witness ==
    /\ sinceStop.quiet
    /\ sinceStop.idle
    /\ sinceStop.sleeps = 1
    /\ pc = "return"

\* C10: FPS accounting. Every DrawFrame call sets _FPS to 1 / (now - lastTime + epsilon)
\* and lastTime to now; the clock never runs backwards, so the divisor is positive:
\* at least one epsilon, also on the first call and between two calls at the same time.
C10_FPSAccounting ==
    [][drawn' # drawn
         => /\ _FPS' = [num |-> 1, ticks |-> now - lastTime, eps |-> 1]
            /\ lastTime' = now
            /\ now - lastTime >= 0
            /\ (_FPS'.ticks > 0 \/ (_FPS'.ticks = 0 /\ _FPS'.eps > 0))
            /\ FPS' = _FPS'
      ]_vars

\* Two frames have been rendered at the same time, later than time 0.
C10_Witness == Len(drawn) = 2 /\ _FPS.num = 1 /\ _FPS.ticks = 0 /\ lastTime > 0

\* RunDrawLoop has ended: it has returned true, or DrawFrame has thrown.
Ended == pc \in {"return", "throw"}

\* C11: once interrupt_received is set and stays set, RunDrawLoop eventually ends,
\* whatever the producer and the buffer source do, the loop thread being scheduled
\* fairly.
C11_StopTerminates == interrupt_received ~> Ended

\* C12: interrupt_received is read only at the top of an outer iteration: RunDrawLoop
\* returns only from there, and with the flag set every other step of the loop goes on
\* as without it: an age read <= 0 leads to the pop, the popped buffer is passed to
\* DrawFrame, and a started render of a frame of the right size writes every pixel.
C12_CancellationGranularity ==
    [][/\ (pc' = "return" /\ pc # "return") => (pc = "while" /\ interrupt_received)
       /\ (interrupt_received /\ pc' # pc) =>
            /\ pc = "inner" =>
                  pc' = IF AgeOfOldestBuffer <= 0 THEN "pop" ELSE "wait"
            /\ (pc = "pop" /\ queue # <<>>) =>
                  /\ pc' = "draw"
                  /\ buffer' = Head(queue)
                  /\ popped' = Append(popped, Head(queue).id)
            /\ pc = "draw" =>
                  /\ drawn' = Append(drawn, buffer.id)
                  /\ pc' = IF buffer.size = MatrixSize THEN "pixels" ELSE "throw"
            /\ pc = "pixels" =>
                  /\ pc' = "inner"
                  /\ \A p \in Pixels : writes'[p] = 1 /\ matrix'[p][3] = buffer.id
      ]_vars

\* A render is in progress with the flag set: it was set after the loop last polled it.
C12_Witness == interrupt_received /\ pc = "pixels"

\* s is t with some of its elements left out.
RECURSIVE IsSubseq(_, _)
IsSubseq(s, t) ==
    IF s = <<>> THEN TRUE
    ELSE IF t = <<>> THEN FALSE
    ELSE IF Head(s) = Head(t) THEN IsSubseq(Tail(s), Tail(t))
    ELSE IsSubseq(s, Tail(t))

\* C13: the frames passed to DrawFrame are, in the same order, frames PopOldestBuffer
\* returned, and all of them once the popped one is passed on when burnExtraFrames is
\* false; the loop holds at most one popped frame, the last one popped; and a step of
\* the loop takes the oldest buffer out of the queue or leaves the queue as it is.
C13_RenderOrder ==
    /\ [](/\ IsSubseq(drawn, popped)
          /\ ~burnExtraFrames =>
                popped = IF pc = "draw" THEN Append(drawn, buffer.id) ELSE drawn
          /\ buffer # None => (popped # <<>> /\ buffer.id = Last(popped))
          /\ buffer # None <=> pc \in {"burn", "draw", "pixels"})
    /\ [][pc' # pc => (queue' = queue \/ (queue # <<>> /\ queue' = Tail(queue)))]_vars

\* Two frames were popped and only the second was passed to DrawFrame.
C13_Witness == burnExtraFrames /\ popped = <<1, 2>> /\ drawn = <<2>>

\* C14: DrawFrame throws exactly on a frame whose size is not the matrix's, and the
\* throw leaves RunDrawLoop in the error state instead of returning: the frame is out
\* of the queue and was passed to DrawFrame once, and from then on the loop pops
\* nothing, renders nothing and does not sleep. Nothing else (an empty pop, a backlog)
\* leads to the error state.
C14_ErrorPropagates ==
    /\ [](pc = "throw" =>
            /\ buffer = None
            /\ drawn # <<>> /\ popped # <<>> /\ Last(drawn) = Last(popped)
            /\ \A i \in 1 .. Len(queue) : queue[i].id # Last(drawn)
            /\ Cardinality({i \in 1 .. Len(drawn) : drawn[i] = Last(drawn)}) = 1)
    /\ [][/\ (pc = "draw" /\ pc' # pc /\ buffer.size # MatrixSize) => pc' = "throw"
          /\ (pc' = "throw" /\ pc # "throw") =>
               (pc = "draw" /\ buffer.size # MatrixSize /\ matrix' = matrix)
          /\ pc = "throw" =>
               /\ pc' = "throw"
               /\ popped' = popped /\ emptyPops' = emptyPops /\ queue' = queue
               /\ drawn' = drawn /\ matrix' = matrix /\ lastTime' = lastTime
               /\ sleepsSincePoll' = sleepsSincePoll /\ now' = now
         ]_vars

\* DrawFrame has thrown on the first frame while a second buffer, already due, is
\* queued.
C14_Witness == pc = "throw" /\ drawn = <<1>> /\ queue # <<>> /\ AgeOfOldestBuffer <= 0

\* The wait of line 112 for an age read a, in whole microseconds.
WaitFor(a) ==
    LET ceiling == kMaximumWait * TicksPerMicro
        least   == IF a < ceiling THEN a ELSE ceiling
    IN  IF least >= 0 THEN least \div TicksPerMicro ELSE 0 - ((0 - least) \div TicksPerMicro)

InnerLoopExits == pc = "inner" /\ pc' = "wait"

\* C17 as stated: burnExtraFrames being true and RunDrawLoop the only consumer, a run
\* of the inner loop that pops at least one frame renders exactly one frame, the last
\* one popped.
C17_Original ==
    [][(InnerLoopExits /\ burnExtraFrames /\ pass.sole /\ pass.pops >= 1) =>
            (pass.draws = 1 /\ drawn # <<>> /\ Last(drawn) = Last(popped))]_vars

\* C17, amended: burnExtraFrames being true and RunDrawLoop the only consumer, a run
\* of the inner loop that pops at least one frame renders at least one frame, and the
\* last frame rendered is the last one popped; a popped frame is dropped only when the
\* age read right after its pop finds a queued buffer already due, and is passed to
\* DrawFrame otherwise.
C17_DiscardKeepsLast ==
    [][/\ (InnerLoopExits /\ burnExtraFrames /\ pass.sole /\ pass.pops >= 1) =>
            (pass.draws >= 1 /\ drawn # <<>> /\ Last(drawn) = Last(popped))
       /\ (pc = "burn" /\ pc' = "inner") => (queue # <<>> /\ Head(queue).due <= now)
       /\ (pc = "burn" /\ pc' = "draw") =>
            ((queue = <<>> \/ Head(queue).due > now) /\ buffer' = buffer)
      ]_vars

\* A run of the inner loop in which RunDrawLoop was the only consumer is about to end:
\* it has popped two frames, dropped the first and rendered the second.
C17_Witness ==
    /\ burnExtraFrames
    /\ pc = "inner"
    /\ AgeOfOldestBuffer > 0
    /\ pass = [pops |-> 2, draws |-> 1, sole |-> TRUE]
    /\ drawn = <<2>>

\* With another consumer the last frame popped may be the one dropped: the inner loop
\* is about to end and the last frame popped was never passed to DrawFrame.
C17_LastPoppedDropped ==
    /\ burnExtraFrames
    /\ pc = "inner"
    /\ AgeOfOldestBuffer > 0
    /\ ~pass.sole
    /\ popped # <<>>
    /\ Last(popped) \notin Range(drawn)

====
